---- MODULE Spec2Model ----
(***************************************************************************)
(* Model of daily_sync.py: a one-way rclone synchroniser.  sync_files      *)
(* walks the configured (source, destination) pairs, reads the             *)
(* destination capacity, asks get_files_to_copy for a plan and copies,     *)
(* verifies and retries the planned files under a deadline, a volume cap   *)
(* and a free-space guard.                                                 *)
(*                                                                         *)
(* Strings whose characters the code inspects (transfer arguments, remote  *)
(* paths, rclone error texts) are sequences of one-character strings.      *)
(* Sizes, free and total bytes are counted in GiB, so that                 *)
(* total_size_copied / (1024 ** 3) >= MAX_TRANSFER_GB reads                *)
(* total_size_copied >= MAX_TRANSFER_GB.                                   *)
(***************************************************************************)
EXTENDS Integers, Sequences, FiniteSets, TLC

(***************************************************************************)
(* Bounds and program constants                                            *)
(***************************************************************************)
MaxTransfers == 2

MAX_TRANSFER_GB == 500

StopHour == 23

\* paths a remote tree may hold, in listing order, with their sizes in GiB
Paths == <<"A", "B">>

SizeOf(p) == IF p = "A" THEN 300 ELSE 200

SrcHashes == {"", "h1"}

DstHashes == {"", "h1", "h2"}

\* command-line arguments: "p,a:"  "p, b:"  "p,c"  "p"
TransferArgs ==
  { <<"p", ",", "a", ":">>,
    <<"p", ",", " ", "b", ":">>,
    <<"p", ",", "c">>,
    <<"p">> }

\* stderr texts of a failing rclone copyto: "403", "Rate limit", "eof"
CopyErrors ==
  { <<"4", "0", "3">>,
    <<"R", "a", "t", "e", " ", "l", "i", "m", "i", "t">>,
    <<"e", "o", "f">> }

\* how rclone copyto can end
CopyResults ==
  {[returncode |-> 0, stderr |-> <<>>]}
  \cup { [returncode |-> 1, stderr |-> e] : e \in CopyErrors }

\* answers of rclone about: total and free, or a failure
AboutResults ==
  { [kind |-> "ok", total |-> 0, free |-> 0],
    [kind |-> "ok", total |-> 10000, free |-> 150],
    [kind |-> "ok", total |-> 10000, free |-> 200],
    [kind |-> "ok", total |-> 10000, free |-> 1000],
    [kind |-> "CalledProcessError"],
    [kind |-> "JSONDecodeError"],
    [kind |-> "KeyError"] }

(***************************************************************************)
(* String helpers                                                          *)
(***************************************************************************)
RECURSIVE SplitFrom(_, _, _, _)
SplitFrom(s, sep, k, cur) ==
  IF k > Len(s) THEN <<cur>>
  ELSE IF s[k] = sep THEN <<cur>> \o SplitFrom(s, sep, k + 1, <<>>)
  ELSE SplitFrom(s, sep, k + 1, Append(cur, s[k]))

\* str.split(sep)
Split(s, sep) == SplitFrom(s, sep, 1, <<>>)

RECURSIVE LStrip(_)
LStrip(s) == IF s # <<>> /\ Head(s) = " " THEN LStrip(Tail(s)) ELSE s

RECURSIVE RStrip(_)
RStrip(s) ==
  IF s # <<>> /\ s[Len(s)] = " " THEN RStrip(SubSeq(s, 1, Len(s) - 1)) ELSE s

\* str.strip()
Strip(s) == RStrip(LStrip(s))

Contains(s, c) == \E k \in 1..Len(s) : s[k] = c

\* substring test: sub in s
IsInfix(sub, s) ==
  \E k \in 0..(Len(s) - Len(sub)) : SubSeq(s, k + 1, k + Len(sub)) = sub

LowerChar(c) ==
  CASE c = "R" -> "r"
    [] c = "L" -> "l"
    [] c = "Q" -> "q"
    [] c = "E" -> "e"
    [] c = "U" -> "u"
    [] OTHER -> c

\* str.lower()
Lower(s) == [k \in 1..Len(s) |-> LowerChar(s[k])]

(***************************************************************************)
(* parse_transfers                                                         *)
(***************************************************************************)
RECURSIVE parse_transfers(_)
parse_transfers(args) ==
  IF args = <<>> THEN <<>>
  ELSE LET parts == Split(Head(args), ",")
           rest == parse_transfers(Tail(args))
       IN IF Len(parts) = 2
          THEN <<[SOURCE |-> Strip(parts[1]), DESTINATION |-> Strip(parts[2])]>>
               \o rest
          ELSE rest

(***************************************************************************)
(* Capacity monitor                                                        *)
(***************************************************************************)
\* extract_remote_name: the part before the first ':', or a ValueError
extract_remote_name(remote_path) ==
  IF ~Contains(remote_path, ":")
  THEN [raised |-> "ValueError"]
  ELSE [raised |-> "", value |-> Split(remote_path, ":")[1]]

\* is_quota_exceeded
QuotaKeywords ==
  { <<"q", "u", "o", "t", "a", "E", "x", "c", "e", "e", "d", "e", "d">>,
    <<"u", "s", "e", "r", "R", "a", "t", "e", "L", "i", "m", "i", "t",
      "E", "x", "c", "e", "e", "d", "e", "d">>,
    <<"4", "0", "3">>,
    <<"4", "2", "9">>,
    <<"R", "a", "t", "e", " ", "L", "i", "m", "i", "t">> }

is_quota_exceeded(error_msg) ==
  \E k \in QuotaKeywords : IsInfix(Lower(k), Lower(error_msg))

\* get_gdrive_free_space_percent_from_path: the tuple it returns, of three
\* components on success and of two on each handled failure.  percent_free
\* is kept as its integer part, which decides percent < 2 the same way.
get_gdrive_free_space_percent_from_path(remote_path, about) ==
  LET remote == extract_remote_name(remote_path)
  IN IF remote.raised = "ValueError" THEN <<FALSE, "input">>
     ELSE IF about.kind = "CalledProcessError" THEN <<FALSE, "rclone">>
     ELSE IF about.kind = "JSONDecodeError" THEN <<FALSE, "input">>
     ELSE IF about.kind = "KeyError" THEN <<FALSE, "json">>
     ELSE LET total == about.total
              free == about.free
              percent_free ==
                IF total > 0 THEN (free * 100) \div total ELSE 0
          IN <<TRUE, percent_free, free>>

(***************************************************************************)
(* Remote listings                                                         *)
(***************************************************************************)
FileItem(p, h) == [Path |-> p, Size |-> SizeOf(p), md5 |-> h, IsDir |-> FALSE]

DirItem == [Path |-> "dir", Size |-> 0, md5 |-> "", IsDir |-> TRUE]

\* the files named by f, a choice of hash or "absent" per path, in path order
RECURSIVE ItemsFrom(_, _)
ItemsFrom(f, k) ==
  IF k > Len(Paths) THEN <<>>
  ELSE IF f[k] = "absent" THEN ItemsFrom(f, k + 1)
  ELSE <<FileItem(Paths[k], f[k])>> \o ItemsFrom(f, k + 1)

\* what rclone.ls(tree, max_depth=9999, --hash) can answer
Listings(hashes) ==
  LET trees == { ItemsFrom(f, 1) :
                   f \in [1..Len(Paths) -> hashes \cup {"absent"}] }
  IN [kind : {"ok"}, items : trees \cup { <<DirItem>> \o t : t \in trees }]
     \cup {[kind |-> "error"]}

(***************************************************************************)
(* Snapshot cache                                                          *)
(***************************************************************************)
\* sanitize_path: an md5 digest, distinct for distinct paths
sanitize_path(remote_path) == <<"md5", remote_path>>

\* cache file names: <digest>_<cache_type>_<day>.json
SnapshotFile(remote_path, is_source, day) ==
  <<"", sanitize_path(remote_path),
    IF is_source THEN "source" ELSE "dest", day>>

NotDir(item) == ~item.IsDir

PutForgets(store, key, value) == store

\* json.dump to a cache file
Put(store, key, value) ==
  [k \in DOMAIN store \cup {key} |-> IF k = key THEN value ELSE store[k]]

get_cached_files_eager(store, day, remote_path, is_source, exists, ls) ==
  LET cache_file == SnapshotFile(remote_path, is_source, day)
  IN IF cache_file \in DOMAIN store
     THEN [files |-> store[cache_file], cache |-> store,
           probes |-> 0, listings |-> 0]
     ELSE IF ~exists
     THEN [files |-> <<>>, cache |-> Put(store, cache_file, <<>>),
           probes |-> 1, listings |-> 0]
     ELSE IF ls.kind = "error"
     THEN [files |-> <<>>, cache |-> Put(store, cache_file, <<>>),
           probes |-> 1, listings |-> 1]
     ELSE LET found == SelectSeq(ls.items, NotDir)
          IN [files |-> found, cache |-> Put(store, cache_file, found),
              probes |-> 1, listings |-> 1]

\* get_cached_files: the snapshot returned, the cache afterwards and the
\* number of existence probes and recursive listings issued.  exists and ls
\* are the answers of check_remote_exists and of the recursive rclone.ls.
get_cached_files(store, day, remote_path, is_source, exists, ls) ==
  LET cache_file == SnapshotFile(remote_path, is_source, day)
  IN IF cache_file \in DOMAIN store
     THEN [files |-> store[cache_file], cache |-> store,
           probes |-> 0, listings |-> 0]
     ELSE IF ~exists
     THEN IF is_source
          THEN [files |-> <<>>, cache |-> store, probes |-> 1, listings |-> 0]
          ELSE [files |-> <<>>, cache |-> Put(store, cache_file, <<>>),
                probes |-> 1, listings |-> 0]
     ELSE IF ls.kind = "error"
     THEN [files |-> <<>>, cache |-> store, probes |-> 1, listings |-> 1]
     ELSE LET found == SelectSeq(ls.items, NotDir)
          IN [files |-> found, cache |-> Put(store, cache_file, found),
              probes |-> 1, listings |-> 1]

(***************************************************************************)
(* Diff engine                                                             *)
(***************************************************************************)
\* sync_list_<digest of the source>_<day>.json
PlanFile(source, day) == <<"sync_list", sanitize_path(source), "", day>>

\* dest_files_dict: the last entry listed under each path
DestDict(dest_files) ==
  [p \in { dest_files[k].Path : k \in 1..Len(dest_files) } |->
     LET last == CHOOSE k \in 1..Len(dest_files) :
                   /\ dest_files[k].Path = p
                   /\ \A m \in (k + 1)..Len(dest_files) : dest_files[m].Path # p
     IN dest_files[last]]

NeedsDeleteUnknownDest(src_file, dict) ==
  /\ src_file.Path \in DOMAIN dict
  /\ src_file.md5 # ""
  /\ src_file.md5 # dict[src_file.Path].md5

\* line 176: the path is at the destination with a known, different hash
NeedsDelete(src_file, dict) ==
  /\ src_file.Path \in DOMAIN dict
  /\ src_file.md5 # ""
  /\ dict[src_file.Path].md5 # ""
  /\ src_file.md5 # dict[src_file.Path].md5

RECURSIVE DiffLoopDropsStale(_, _, _)
DiffLoopDropsStale(src, dict, k) ==
  IF k > Len(src) THEN [files_to_copy |-> <<>>, deleted |-> <<>>]
  ELSE LET src_file == src[k]
           rest == DiffLoopDropsStale(src, dict, k + 1)
       IN IF src_file.Path \in DOMAIN dict
          THEN IF NeedsDelete(src_file, dict)
               THEN [files_to_copy |-> rest.files_to_copy,
                     deleted |-> <<src_file.Path>> \o rest.deleted]
               ELSE rest
          ELSE [files_to_copy |-> <<src_file>> \o rest.files_to_copy,
                deleted |-> rest.deleted]

\* the loop of get_files_to_copy over source_files from index k on:
\* files_to_copy and the paths handed to delete_file, in order
RECURSIVE DiffLoop(_, _, _)
DiffLoop(src, dict, k) ==
  IF k > Len(src) THEN [files_to_copy |-> <<>>, deleted |-> <<>>]
  ELSE LET src_file == src[k]
           rest == DiffLoop(src, dict, k + 1)
       IN IF src_file.Path \in DOMAIN dict
          THEN IF NeedsDelete(src_file, dict)
               THEN [files_to_copy |-> <<src_file>> \o rest.files_to_copy,
                     deleted |-> <<src_file.Path>> \o rest.deleted]
               ELSE rest
          ELSE [files_to_copy |-> <<src_file>> \o rest.files_to_copy,
                deleted |-> rest.deleted]

(***************************************************************************)
(* Transfer executor helpers                                               *)
(***************************************************************************)
\* run_rclone_copy: (True, stdout) or (False, "Exit code 1: <stderr>")
run_rclone_copy(result) ==
  IF result.returncode = 0 THEN <<TRUE, <<>>>>
  ELSE <<FALSE,
         <<"E", "x", "i", "t", " ", "c", "o", "d", "e", " ", "1", ":", " ">>
         \o result.stderr>>

\* get_file_hash answers "None" or a digest; Python truthiness of the answer
Truthy(h) == h # "None"

HashesEqual(src_hash, dest_hash) == src_hash = dest_hash

\* lines 312 and 325
HashesMatch(src_hash, dest_hash) ==
  Truthy(src_hash) /\ Truthy(dest_hash) /\ src_hash = dest_hash

(***************************************************************************)
(* State                                                                   *)
(***************************************************************************)
VARIABLES
  transfer_args,      \* args.transfers
  transfers,          \* parse_transfers(args.transfers)
  pc,                 \* position of sync_files
  i,                  \* index of the pair being processed
  today,              \* the calendar day of datetime.now()
  clock,              \* the hour last read from datetime.now()
  cache,              \* the files of CACHE_DIR: file name -> content
  percent,            \* sync_files: percent
  free_space,         \* sync_files: free_space
  source_files,       \* get_files_to_copy: source_files
  dest_files,         \* get_files_to_copy: dest_files
  files,              \* sync_files: files
  j,                  \* index of the planned entry being processed
  total_copied,       \* sync_files: total_copied
  total_size_copied,  \* sync_files: total_size_copied
  report,             \* the final totals, once logged
  capacity,           \* observer: how the pair's capacity query ended
  calls,              \* observer: kinds of remote call since the capacity query
  plan_view,          \* observer: the snapshots behind the plan just returned
  entry,              \* observer: what happened to the current planned entry
  verified,           \* observer: count and bytes of the entries whose hashes matched
  observed,           \* observer: the stop condition seen, or "none"
  hist                \* observer: the listings, plans and deletions so far

vars ==
  <<transfer_args, transfers, pc, i, today, clock, cache, percent, free_space,
    source_files, dest_files, files, j, total_copied, total_size_copied,
    report, capacity, calls, plan_view, entry, verified, observed, hist>>

\* the kinds of remote call among "probe", "listing", "delete", "copy", "hash"
NoCalls == {}

Kinds(kind, n) == IF n > 0 THEN {kind} ELSE {}

NoView == [how |-> "none", S |-> <<>>, D |-> <<>>, deleted |-> <<>>]

NoEntry ==
  [idx |-> 0, outcome |-> "none", probes |-> 0, copies |-> 0, deletes |-> 0,
   hashes |-> 0, first |-> "none", del |-> "none", retry |-> "none",
   second |-> "none", counted |-> 0, files0 |-> 0, bytes0 |-> 0]

NoReport == [logged |-> FALSE, files |-> 0, bytes |-> 0]

\* nothing listed, planned or deleted yet
NoHist ==
  [requested |-> {}, succeeded |-> {}, relisted |-> {}, relisted_ok |-> {},
   served |-> {}, failed |-> {}, planned |-> [k \in {} |-> <<>>],
   stale |-> {}, present |-> {}, reached |-> {}, restored |-> {}]

ArgLists ==
  UNION { [1..n -> TransferArgs] : n \in 1..MaxTransfers }

Init ==
  /\ transfer_args \in ArgLists
  /\ transfers = <<>>
  /\ pc = "parse"
  /\ i = 1
  /\ today = 1
  /\ clock = StopHour - 1
  /\ cache = [k \in {} |-> <<>>]
  /\ percent = 0
  /\ free_space = 0
  /\ source_files = <<>>
  /\ dest_files = <<>>
  /\ files = <<>>
  /\ j = 1
  /\ total_copied = 0
  /\ total_size_copied = 0
  /\ report = NoReport
  /\ capacity = "none"
  /\ calls = NoCalls
  /\ plan_view = NoView
  /\ entry = NoEntry
  /\ verified = [files |-> 0, bytes |-> 0, last |-> 0]
  /\ observed = "none"
  /\ hist = NoHist

(***************************************************************************)
(* Loop control of sync_files                                              *)
(***************************************************************************)
\* line 342: the final totals are logged and sync_files returns
Finish(copied, size) ==
  /\ pc' = "returned"
  /\ report' = [logged |-> TRUE, files |-> copied, bytes |-> size]

\* a bare return: sync_files returns without logging the totals
Return ==
  /\ pc' = "returned"
  /\ report' = report

\* continue of the loop over transfers, or its end
NextPair(copied, size) ==
  /\ i' = i + 1
  /\ IF i + 1 > Len(transfers)
     THEN Finish(copied, size)
     ELSE pc' = "capacity" /\ report' = report

NextFileBreak(copied, size) == j' = j /\ NextPair(copied, size)

NextFileStays(copied, size) ==
  j' = j /\ i' = i /\ pc' = "file" /\ report' = report

\* continue of the loop over files, or its end
NextFile(copied, size) ==
  IF j + 1 > Len(files)
  THEN j' = j /\ NextPair(copied, size)
  ELSE j' = j + 1 /\ i' = i /\ pc' = "file" /\ report' = report

(***************************************************************************)
(* sync_files, lines 241-270: the pair loop up to the plan                 *)
(***************************************************************************)
ParseTransfers ==
  /\ pc = "parse"
  /\ transfers' = parse_transfers(transfer_args)
  /\ IF transfers' = <<>> THEN Return ELSE pc' = "capacity" /\ report' = report
  /\ UNCHANGED <<transfer_args, i, today, clock, cache, percent, free_space,
                 source_files, dest_files, files, j, total_copied,
                 total_size_copied, capacity, calls, plan_view, entry,
                 verified, observed>>
  /\ UNCHANGED hist

LowSpaceBelowOne(p) == p < 1

\* line 253
LowSpace(p) == p < 2

\* what the capacity query of a pair amounts to, from the answer of rclone
\* about: a failure, a reading below 2 percent free, or a usable reading
Reading(destination, about) ==
  IF ~Contains(destination, ":") \/ about.kind # "ok" THEN "failed"
  ELSE IF about.total = 0 \/ about.free * 100 < 2 * about.total THEN "low"
  ELSE "ok"

\* lines 247-255.  The call returns two values on failure and the
\* assignment unpacks three: the ValueError it raises is caught nowhere.
Capacity ==
  /\ pc = "capacity"
  /\ \E about \in AboutResults :
       LET destination == transfers[i].DESTINATION
           result == get_gdrive_free_space_percent_from_path(destination, about)
       IN /\ capacity' = Reading(destination, about)
          /\ IF Len(result) # 3
             THEN /\ pc' = "crashed"
                  /\ UNCHANGED <<i, percent, free_space, report>>
             ELSE /\ percent' = result[2]
                  /\ free_space' = result[3]
                  /\ IF ~result[1] \/ LowSpace(result[2])
                     THEN NextPair(total_copied, total_size_copied)
                     ELSE pc' = "check_source" /\ UNCHANGED <<i, report>>
  /\ calls' = NoCalls
  /\ plan_view' = NoView
  /\ entry' = NoEntry
  /\ hist' = [hist EXCEPT !.stale = {}, !.present = {}, !.reached = {},
                          !.restored = {}]
  /\ UNCHANGED <<transfer_args, transfers, today, clock, cache, source_files,
                 dest_files, files, j, total_copied, total_size_copied,
                 verified, observed>>

\* lines 259-261
CheckSource ==
  /\ pc = "check_source"
  /\ \E exists \in BOOLEAN :
       IF exists
       THEN pc' = "plan_source" /\ UNCHANGED <<i, report>>
       ELSE NextPair(total_copied, total_size_copied)
  /\ calls' = calls \cup {"probe"}
  /\ UNCHANGED <<transfer_args, transfers, today, clock, cache, percent,
                 free_space, source_files, dest_files, files, j, total_copied,
                 total_size_copied, capacity, plan_view, entry, verified,
                 observed>>
  /\ UNCHANGED hist

\* lines 264 and 272: an empty plan goes to the report of lines 265-270
AfterPlan(plan) ==
  /\ files' = plan
  /\ j' = 1
  /\ pc' = IF plan = <<>> THEN "empty_plan" ELSE "file"

\* the snapshots get_cached_files can return for a tree right now
Snapshots(remote_path, is_source, hashes) ==
  { get_cached_files(cache, today, remote_path, is_source, exists, ls).files :
      exists \in BOOLEAN, ls \in Listings(hashes) }

\* the observer's record of one get_cached_files call answered with r:
\* served from the cache, or a full listing requested and answered ls, and
\* whether the same tree and role had been listed, or listed with success,
\* before
Listed(h, r, ls, remote_path, is_source) ==
  LET key == SnapshotFile(remote_path, is_source, today)
  IN IF key \in DOMAIN cache THEN [h EXCEPT !.served = @ \cup {key}]
     ELSE IF r.listings = 0 THEN h
     ELSE [h EXCEPT
             !.requested = @ \cup {key},
             !.relisted = IF key \in h.requested THEN @ \cup {key} ELSE @,
             !.succeeded = IF ls.kind = "ok" THEN @ \cup {key} ELSE @,
             !.relisted_ok = IF key \in h.succeeded THEN @ \cup {key} ELSE @]

\* the observer's note of the plan get_files_to_copy returned for a pair,
\* and whether it wrote that plan to the cache
Noted(plans, pair, plan, written) ==
  [k \in DOMAIN plans \cup {pair} |->
     IF k = pair THEN [plan |-> plan, written |-> written] ELSE plans[k]]

SourceMissingOnEmpty(src, still) == src = <<>>

\* line 156: no source snapshot and the source tree does not exist
SourceMissing(src, still) == src = <<>> /\ ~still

\* the source tree exists and its recursive listing failed
ListingFailed(r, ls, still) ==
  /\ r.listings = 1
  /\ ls.kind = "error"
  /\ still

\* get_files_to_copy, lines 146-158: the cached plan, or the source snapshot
PlanSource ==
  /\ pc = "plan_source"
  /\ LET source == transfers[i].SOURCE
         destination == transfers[i].DESTINATION
         cache_file == PlanFile(source, today)
     IN IF cache_file \in DOMAIN cache
        THEN /\ AfterPlan(cache[cache_file])
             /\ \E S \in Snapshots(source, TRUE, SrcHashes),
                   D \in Snapshots(destination, FALSE, DstHashes) :
                  plan_view' = [how |-> "cached", S |-> S, D |-> D,
                                deleted |-> <<>>]
             /\ UNCHANGED <<cache, source_files, dest_files, calls, hist>>
        ELSE \E exists \in BOOLEAN, ls \in Listings(SrcHashes) :
               LET r == get_cached_files(cache, today, source, TRUE, exists, ls)
               IN /\ cache' = r.cache
                  /\ source_files' = r.files
                  /\ IF r.files = <<>>
                     THEN \E still \in BOOLEAN :
                            /\ calls' = calls \cup {"probe"}
                                           \cup Kinds("listing", r.listings)
                            /\ hist' = [Listed(hist, r, ls, source, TRUE) EXCEPT
                                          !.failed =
                                            IF ListingFailed(r, ls, still)
                                            THEN @ \cup {source} ELSE @,
                                          !.planned =
                                            IF SourceMissing(r.files, still)
                                            THEN Noted(@, <<source,
                                                            destination>>,
                                                       <<>>, FALSE)
                                            ELSE @]
                            /\ IF SourceMissing(r.files, still)
                               THEN /\ AfterPlan(<<>>)
                                    /\ plan_view' = [NoView EXCEPT
                                                       !.how = "no_source"]
                               ELSE /\ pc' = "plan_dest"
                                    /\ UNCHANGED <<files, j, plan_view>>
                     ELSE /\ calls' = calls \cup Kinds("probe", r.probes)
                                         \cup Kinds("listing", r.listings)
                          /\ hist' = Listed(hist, r, ls, source, TRUE)
                          /\ pc' = "plan_dest"
                          /\ UNCHANGED <<files, j, plan_view>>
                  /\ UNCHANGED dest_files
  /\ UNCHANGED <<transfer_args, transfers, i, today, clock, percent,
                 free_space, total_copied, total_size_copied, report,
                 capacity, entry, verified, observed>>

\* the destination files named by the delete_file calls of line 178
Removed(destination, deleted) ==
  { <<destination, deleted[k]>> : k \in 1..Len(deleted) }

\* get_files_to_copy, lines 160-188: the destination snapshot, the
\* comparison with its deletes, and the plan written to the cache
PlanDest ==
  /\ pc = "plan_dest"
  /\ LET source == transfers[i].SOURCE
         destination == transfers[i].DESTINATION
     IN \E exists \in BOOLEAN, ls \in Listings(DstHashes) :
          LET r == get_cached_files(cache, today, destination, FALSE,
                                    exists, ls)
              diff == DiffLoop(source_files, DestDict(r.files), 1)
          IN /\ dest_files' = r.files
             /\ cache' = Put(r.cache, PlanFile(source, today),
                             diff.files_to_copy)
             /\ calls' = calls \cup Kinds("probe", r.probes)
                            \cup Kinds("listing", r.listings)
                            \cup Kinds("delete", Len(diff.deleted))
             /\ plan_view' = [how |-> "computed", S |-> source_files,
                              D |-> r.files, deleted |-> diff.deleted]
             /\ \E gone \in SUBSET Removed(destination, diff.deleted) :
                  hist' = [Listed(hist, r, ls, destination, FALSE) EXCEPT
                             !.planned = Noted(@, <<source, destination>>,
                                               diff.files_to_copy, TRUE),
                             !.stale = @ \cup gone,
                             !.present = @ \ gone,
                             !.reached = @ \ gone,
                             !.restored = @ \ gone]
             /\ AfterPlan(diff.files_to_copy)
  /\ UNCHANGED <<transfer_args, transfers, i, today, clock, percent,
                 free_space, source_files, total_copied, total_size_copied,
                 report, capacity, entry, verified, observed>>

\* lines 264-270: the source snapshot is fetched again for the log message
EmptyPlan ==
  /\ pc = "empty_plan"
  /\ \E exists \in BOOLEAN, ls \in Listings(SrcHashes) :
       LET r == get_cached_files(cache, today, transfers[i].SOURCE, TRUE,
                                 exists, ls)
       IN /\ cache' = r.cache
          /\ calls' = calls \cup Kinds("probe", r.probes)
                         \cup Kinds("listing", r.listings)
          /\ hist' = Listed(hist, r, ls, transfers[i].SOURCE,
                            TRUE)
  /\ NextPair(total_copied, total_size_copied)
  /\ plan_view' = NoView
  /\ UNCHANGED <<transfer_args, transfers, today, clock, percent, free_space,
                 source_files, dest_files, files, j, total_copied,
                 total_size_copied, capacity, entry, verified, observed>>

(***************************************************************************)
(* sync_files, lines 274-340: the file loop                                *)
(***************************************************************************)
SpaceGuardFileOnly(copied_size, file_size, free) == file_size > free

\* line 291
SpaceGuard(copied_size, file_size, free) == copied_size + file_size > free

VolumeReachedAbove(copied_size) == copied_size > MAX_TRANSFER_GB

\* line 282
VolumeReached(copied_size) == copied_size >= MAX_TRANSFER_GB

\* the observer's record of an entry the loop starts on
Opened(outcome) ==
  [NoEntry EXCEPT !.idx = j, !.outcome = outcome,
                  !.files0 = total_copied, !.bytes0 = total_size_copied]

\* lines 274-295: deadline, volume cap and free-space guard
FileTop ==
  /\ pc = "file"
  /\ \E current_time \in clock..StopHour :
       /\ clock' = current_time
       /\ IF current_time >= StopHour
          THEN /\ Finish(total_copied, total_size_copied)
               /\ observed' = "deadline"
               /\ entry' = Opened("DeadlineStop")
               /\ UNCHANGED <<i, j>>
          ELSE IF VolumeReached(total_size_copied)
          THEN /\ Return
               /\ observed' = "volume"
               /\ entry' = Opened("VolumeStop")
               /\ UNCHANGED <<i, j>>
          ELSE IF SpaceGuard(total_size_copied, files[j].Size, free_space)
          THEN /\ NextFile(total_copied, total_size_copied)
               /\ entry' = Opened("SpaceSkip")
               /\ UNCHANGED observed
          ELSE /\ pc' = "exists"
               /\ entry' = Opened("open")
               /\ UNCHANGED <<i, j, report, observed>>
  /\ plan_view' = NoView
  /\ UNCHANGED <<transfer_args, transfers, today, cache, percent, free_space,
                 source_files, dest_files, files, total_copied,
                 total_size_copied, capacity, calls, verified>>
  /\ UNCHANGED hist

\* line 289, dest_path: the destination file of the entry being processed
Current == <<transfers[i].DESTINATION, files[j].Path>>

\* the observer's mark on the current destination file, when it is one the
\* comparison deleted: field becomes one of "reached", "present", "restored"
Marked(field) ==
  LET x == {Current} \cap hist.stale
  IN CASE field = "reached" -> [hist EXCEPT !.reached = @ \cup x]
       [] field = "present" -> [hist EXCEPT !.present = @ \cup x]
       [] field = "restored" -> [hist EXCEPT !.restored = @ \cup x]
       [] OTHER -> [hist EXCEPT !.present = @ \ x, !.restored = @ \ x]

\* lines 297-304: rclone.ls of the source file answers items, nothing, or fails
SourceExists ==
  /\ pc = "exists"
  /\ \E ls \in {"items", "empty", "error"} :
       IF ls = "items"
       THEN /\ pc' = "copy"
            /\ entry' = [entry EXCEPT !.probes = @ + 1]
            /\ hist' = Marked("reached")
            /\ UNCHANGED <<i, j, report>>
       ELSE /\ NextFile(total_copied, total_size_copied)
            /\ entry' = [entry EXCEPT !.probes = @ + 1,
                                      !.outcome = "SourceVanished"]
            /\ UNCHANGED hist
  /\ calls' = calls \cup {"probe"}
  /\ UNCHANGED <<transfer_args, transfers, today, clock, cache, percent,
                 free_space, source_files, dest_files, files, total_copied,
                 total_size_copied, capacity, plan_view, verified, observed>>

\* the stop condition on record once a copy has failed with text
Seen(text) == IF is_quota_exceeded(text) THEN "quota" ELSE observed

\* lines 307 and 335-340: the first copy
Copy ==
  /\ pc = "copy"
  /\ \E result \in CopyResults :
       LET r == run_rclone_copy(result)
           success == r[1]
           error_msg == r[2]
       IN IF success
          THEN /\ pc' = "verify"
               /\ entry' = [entry EXCEPT !.copies = @ + 1]
               /\ hist' = Marked("present")
               /\ UNCHANGED <<i, j, report, observed>>
          ELSE /\ observed' = Seen(result.stderr)
               /\ UNCHANGED hist
               /\ IF is_quota_exceeded(error_msg)
                  THEN /\ Return
                       /\ entry' = [entry EXCEPT !.copies = @ + 1,
                                                 !.outcome = "QuotaExceeded"]
                       /\ UNCHANGED <<i, j>>
                  ELSE /\ NextFile(total_copied, total_size_copied)
                       /\ entry' = [entry EXCEPT !.copies = @ + 1,
                                                 !.outcome = "TransferFailed"]
  /\ calls' = calls \cup {"copy"}
  /\ UNCHANGED <<transfer_args, transfers, today, clock, cache, percent,
                 free_space, source_files, dest_files, files, total_copied,
                 total_size_copied, capacity, plan_view, verified>>

\* what get_file_hash can answer for the source and the destination copy
SrcHashAnswers == {"None", "h1"}

DstHashAnswers == {"None", "h1", "h2"}

\* the observer's tally of verified entries after a pair of hashes is read
Recorded(src_hash, dest_hash) ==
  IF src_hash # "None" /\ src_hash = dest_hash
  THEN [files |-> verified.files + 1,
        bytes |-> verified.bytes + files[j].Size,
        last |-> files[j].Size]
  ELSE verified

\* lines 310-317: the hashes after the first copy
Verify ==
  /\ pc = "verify"
  /\ \E src_hash \in SrcHashAnswers, dest_hash \in DstHashAnswers :
       /\ verified' = Recorded(src_hash, dest_hash)
       /\ hist' = IF HashesMatch(src_hash, dest_hash)
                  THEN Marked("restored") ELSE hist
       /\ IF HashesMatch(src_hash, dest_hash)
          THEN /\ total_copied' = total_copied + 1
               /\ total_size_copied' = total_size_copied + files[j].Size
               /\ entry' = [entry EXCEPT !.hashes = @ + 2,
                                         !.first = "match",
                                         !.counted = @ + 1,
                                         !.outcome = "Verified"]
               /\ NextFile(total_copied', total_size_copied')
          ELSE /\ pc' = "delete"
               /\ entry' = [entry EXCEPT !.hashes = @ + 2,
                                         !.first = "mismatch"]
               /\ UNCHANGED <<i, j, report, total_copied, total_size_copied>>
  /\ calls' = calls \cup {"hash"}
  /\ UNCHANGED <<transfer_args, transfers, today, clock, cache, percent,
                 free_space, source_files, dest_files, files, capacity,
                 plan_view, observed>>

RetryAlways(deleted) == TRUE

\* line 318: the retry is attempted only when delete_file succeeded
RetryAllowed(deleted) == deleted

\* lines 318 and 333-334: the destination copy is deleted before the retry
Delete ==
  /\ pc = "delete"
  /\ \E deleted \in BOOLEAN :
       /\ hist' = IF deleted THEN Marked("absent") ELSE hist
       /\ IF RetryAllowed(deleted)
          THEN /\ pc' = "retry_copy"
               /\ entry' = [entry EXCEPT
                             !.deletes = @ + 1,
                             !.del = IF deleted THEN "ok" ELSE "failed"]
               /\ UNCHANGED <<i, j, report>>
          ELSE /\ NextFile(total_copied, total_size_copied)
               /\ entry' = [entry EXCEPT !.deletes = @ + 1, !.del = "failed",
                                         !.outcome = "VerificationFailed"]
  /\ calls' = calls \cup {"delete"}
  /\ UNCHANGED <<transfer_args, transfers, today, clock, cache, percent,
                 free_space, source_files, dest_files, files, total_copied,
                 total_size_copied, capacity, plan_view, verified, observed>>

\* lines 321 and 331-332: the retry copy; its error text is only logged
RetryCopy ==
  /\ pc = "retry_copy"
  /\ \E result \in CopyResults :
       LET r == run_rclone_copy(result)
           success == r[1]
       IN IF success
          THEN /\ pc' = "retry_verify"
               /\ entry' = [entry EXCEPT !.copies = @ + 1, !.retry = "ok"]
               /\ hist' = Marked("present")
               /\ UNCHANGED <<i, j, report, observed>>
          ELSE /\ observed' = Seen(result.stderr)
               /\ UNCHANGED hist
               /\ NextFile(total_copied, total_size_copied)
               /\ entry' = [entry EXCEPT !.copies = @ + 1,
                                         !.retry = "failed",
                                         !.outcome = "TransferFailed"]
  /\ calls' = calls \cup {"copy"}
  /\ UNCHANGED <<transfer_args, transfers, today, clock, cache, percent,
                 free_space, source_files, dest_files, files, total_copied,
                 total_size_copied, capacity, plan_view, verified>>

\* lines 323-330: the hashes after the retry copy
RetryVerify ==
  /\ pc = "retry_verify"
  /\ \E src_hash \in SrcHashAnswers, dest_hash \in DstHashAnswers :
       /\ verified' = Recorded(src_hash, dest_hash)
       /\ hist' = IF HashesMatch(src_hash, dest_hash)
                  THEN Marked("restored") ELSE hist
       /\ IF HashesMatch(src_hash, dest_hash)
          THEN /\ total_copied' = total_copied + 1
               /\ total_size_copied' = total_size_copied + files[j].Size
               /\ entry' = [entry EXCEPT !.hashes = @ + 2,
                                         !.second = "match",
                                         !.counted = @ + 1,
                                         !.outcome = "Verified"]
          ELSE /\ entry' = [entry EXCEPT !.hashes = @ + 2,
                                         !.second = "mismatch",
                                         !.outcome = "VerificationFailed"]
               /\ UNCHANGED <<total_copied, total_size_copied>>
       /\ NextFile(total_copied', total_size_copied')
  /\ calls' = calls \cup {"hash"}
  /\ UNCHANGED <<transfer_args, transfers, today, clock, cache, percent,
                 free_space, source_files, dest_files, files, capacity,
                 plan_view, observed>>

Next ==
  \/ ParseTransfers
  \/ Capacity
  \/ CheckSource
  \/ PlanSource
  \/ PlanDest
  \/ EmptyPlan
  \/ FileTop
  \/ SourceExists
  \/ Copy
  \/ Verify
  \/ Delete
  \/ RetryCopy
  \/ RetryVerify

Spec == Init /\ [][Next]_vars

\* the argument lists of the runs followed to their end: a single argument,
\* or "p,a:" followed by other arguments
EndedLists ==
  { l \in ArgLists :
      Len(l) > 1 => /\ l[1] = <<"p", ",", "a", ":">>
                    /\ \A k \in 2..Len(l) : l[k] # l[1] }

InitEnded == Init /\ transfer_args \in EndedLists

\* every call of an external program returns, so no step waits for ever
FairSpec == InitEnded /\ [][Next]_vars /\ WF_vars(Next)

(***************************************************************************)
(* Several runs of one day                                                 *)
(***************************************************************************)
\* the script is started again on the same day with the same arguments:
\* CACHE_DIR keeps its files, everything else starts afresh
Rerun ==
  /\ pc \in {"returned", "crashed"}
  /\ pc' = "parse"
  /\ transfers' = <<>>
  /\ i' = 1
  /\ percent' = 0
  /\ free_space' = 0
  /\ source_files' = <<>>
  /\ dest_files' = <<>>
  /\ files' = <<>>
  /\ j' = 1
  /\ total_copied' = 0
  /\ total_size_copied' = 0
  /\ report' = NoReport
  /\ capacity' = "none"
  /\ calls' = NoCalls
  /\ plan_view' = NoView
  /\ entry' = NoEntry
  /\ verified' = [files |-> 0, bytes |-> 0, last |-> 0]
  /\ observed' = "none"
  /\ hist' = [hist EXCEPT !.stale = {}, !.present = {}, !.reached = {},
                          !.restored = {}]
  /\ UNCHANGED <<transfer_args, today, clock, cache>>

InitDay == Init /\ Len(transfer_args) = 1

NextDay ==
  \/ ParseTransfers
  \/ Capacity
  \/ CheckSource
  \/ PlanSource
  \/ PlanDest
  \/ EmptyPlan
  \/ FileTop
  \/ SourceExists
  \/ Copy
  \/ Verify
  \/ Delete
  \/ RetryCopy
  \/ RetryVerify
  \/ Rerun

SpecDay == InitDay /\ [][NextDay]_vars

(***************************************************************************)
(* Properties                                                              *)
(***************************************************************************)
\* C1: whenever the capacity query of a pair fails, the run does not end
\* abnormally: that pair alone is skipped and the run goes on to the next
\* configured pair (or returns once no pair is left).
CapacityFailureSkipsPair ==
  capacity = "failed" =>
    /\ pc \in {"capacity", "returned"}
    /\ pc = "returned" => i > Len(transfers)

\* C2: a pair whose capacity reading is below 2 percent free (a total of 0
\* included) is skipped before any work on it: up to the start of the next
\* pair no existence probe, listing, delete, copy or hash has been issued.
LowSpaceSkipsPair ==
  capacity = "low" =>
    /\ calls = {}
    /\ entry = NoEntry
    /\ plan_view = NoView
    /\ pc \in {"capacity", "returned"}
    /\ pc = "returned" => i > Len(transfers)

LowSpaceSkipsPairWitness ==
  /\ capacity = "low"
  /\ percent = 1
  /\ pc = "capacity"
  /\ i = 2

\* an entry of S belongs in the plan against D: its path is not in D, or
\* it is in D and both md5 hashes are known and differ
InPlan(e, D) ==
  \/ \A k \in 1..Len(D) : D[k].Path # e.Path
  \/ \E k \in 1..Len(D) :
       /\ D[k].Path = e.Path
       /\ e.md5 # ""
       /\ D[k].md5 # ""
       /\ e.md5 # D[k].md5

\* the subsequence of S, in the order of S, of the entries that belong
Expected(S, D) ==
  LET Keep(e) == InPlan(e, D)
  IN SelectSeq(S, Keep)

\* C3: a plan computed by get_files_to_copy from snapshots S and D is the
\* subsequence of S, in listing order, of the entries whose path is not in
\* D or is in D with both hashes known and different.
PlanIsExactDiff ==
  plan_view.how = "computed" =>
    files = Expected(plan_view.S, plan_view.D)

PlanIsExactDiffWitness ==
  /\ plan_view.how = "computed"
  /\ Len(plan_view.S) = 2
  /\ Len(plan_view.D) = 2
  /\ Len(files) = 1
  /\ files[1].Path = "B"

\* the plan on file for the source of pair k is the difference of the
\* snapshots on file for the source and the destination of pair k
PlanOnFileFits(k) ==
  LET src == SnapshotFile(transfers[k].SOURCE, TRUE, today)
      dst == SnapshotFile(transfers[k].DESTINATION, FALSE, today)
      plan == PlanFile(transfers[k].SOURCE, today)
  IN /\ {src, dst, plan} \subseteq DOMAIN cache
     /\ cache[plan] = Expected(cache[src], cache[dst])

\* C4: for two pairs with the same source and different destinations, the
\* plan returned for each pair is the difference against that pair's own
\* destination snapshot: when the first pair got the plan that fits its
\* snapshots, the second gets the plan that fits its own.
PlanPerPair ==
  ( /\ plan_view.how \in {"computed", "cached"}
    /\ i = 2
    /\ transfers[1].SOURCE = transfers[2].SOURCE
    /\ transfers[1].DESTINATION # transfers[2].DESTINATION
    /\ PlanOnFileFits(1) )
  => files = Expected(plan_view.S, plan_view.D)

\* C5: once any copy, first or retry, has failed with a quota or rate-limit
\* text, the run has halted: nothing further is issued.
QuotaFailureHaltsRun ==
  observed = "quota" => pc = "returned"

\* the planned entry on record is finished
EntryDone ==
  /\ entry.idx > 0
  /\ pc \notin {"exists", "copy", "verify", "delete", "retry_copy",
                "retry_verify"}

\* C6 as stated: a failed verification of the first copy is followed by
\* exactly one deletion, exactly one retry copy and one re-verification.
RetryExactlyOnce ==
  (EntryDone /\ entry.first = "mismatch") =>
    /\ entry.deletes = 1
    /\ entry.copies = 2
    /\ entry.hashes = 4
    /\ entry.second # "match" =>
         /\ entry.outcome = "VerificationFailed"
         /\ total_copied = entry.files0

\* C6 amended: a failed verification of the first copy is followed by
\* exactly one deletion; a retry copy is issued, once, only when the deletion
\* succeeded, and a re-verification only when the retry copy succeeded; when
\* the deletion fails, the retry copy fails or the retry hashes do not match,
\* the file is reported failed and not counted; there is no third copy.
RetryAfterDelete ==
  (EntryDone /\ entry.first = "mismatch") =>
    /\ entry.deletes = 1
    /\ entry.del = "failed" => entry.copies = 1 /\ entry.hashes = 2
    /\ entry.del = "ok" => entry.copies = 2
    /\ entry.retry = "failed" => entry.hashes = 2
    /\ entry.retry = "ok" => entry.hashes = 4
    /\ entry.second # "match" =>
         /\ entry.outcome \in {"VerificationFailed", "TransferFailed"}
         /\ entry.counted = 0
         /\ total_copied = entry.files0
         /\ total_size_copied = entry.bytes0
    /\ entry.second = "match" =>
         /\ entry.counted = 1
         /\ total_copied = entry.files0 + 1

RetryAfterDeleteWitness ==
  /\ EntryDone
  /\ entry.first = "mismatch"
  /\ entry.del = "ok"
  /\ entry.retry = "ok"
  /\ entry.second = "mismatch"

\* C7: a planned entry that reaches the free-space guard with cumulative
\* bytes c, size s and reading F where c + s > F is skipped: no existence
\* check, copy, hash or delete is issued for it, the counters are
\* unchanged, and the run continues with the next planned entry.
SpaceGuardSkips ==
  ( /\ entry.idx > 0
    /\ entry.outcome \notin {"DeadlineStop", "VolumeStop"}
    /\ entry.bytes0 + files[entry.idx].Size > free_space )
  => /\ entry.outcome = "SpaceSkip"
     /\ entry.probes = 0 /\ entry.copies = 0
     /\ entry.hashes = 0 /\ entry.deletes = 0
     /\ total_copied = entry.files0
     /\ total_size_copied = entry.bytes0
     /\ entry.idx < Len(files) => pc = "file" /\ j = entry.idx + 1
     /\ entry.idx = Len(files) =>
          \/ pc = "capacity"
          \/ pc = "returned" /\ i > Len(transfers) /\ report.logged

SpaceGuardSkipsWitness ==
  /\ entry.outcome = "SpaceSkip"
  /\ entry.idx = 1
  /\ pc = "file"
  /\ j = 2

\* C8: the counters equal the number and the total size of the entries
\* whose hashes matched after the first copy or after the retry; a verified
\* entry adds 1 and its size once, every other outcome adds nothing.
CountersMatchVerified ==
  /\ total_copied = verified.files
  /\ total_size_copied = verified.bytes
  /\ entry.idx > 0 =>
       IF entry.outcome = "Verified"
       THEN /\ entry.counted = 1
            /\ total_copied = entry.files0 + 1
            /\ total_size_copied = entry.bytes0 + files[entry.idx].Size
       ELSE /\ entry.counted = 0
            /\ total_copied = entry.files0
            /\ total_size_copied = entry.bytes0

CountersMatchVerifiedWitness ==
  /\ total_copied = 2
  /\ total_size_copied = 500
  /\ entry.second = "match"

\* C9: every end of a run that had a valid pair is preceded by the report
\* of the final totals.
EveryEndReportsTotals ==
  (pc = "returned" /\ transfers # <<>>) =>
    report = [logged |-> TRUE, files |-> total_copied,
              bytes |-> total_size_copied]

\* C10: a run ends before all pairs are processed only after the deadline,
\* the volume cap or a quota failure was observed, and each of them ends
\* the whole run.
OnlyThreeStops ==
  /\ (pc \in {"returned", "crashed"} /\ i <= Len(transfers)) =>
       observed \in {"deadline", "volume", "quota"}
  /\ observed # "none" => pc = "returned"

\* C11: after a planned entry ended SourceVanished (no copy attempted),
\* TransferFailed on a text with no quota indicator, or VerificationFailed,
\* the run continues: the next entry of the plan is examined, and after the
\* last entry the next configured pair is processed.
PerFileFailureContinues ==
  ( /\ EntryDone
    /\ \/ entry.outcome \in {"SourceVanished", "VerificationFailed"}
       \/ entry.outcome = "TransferFailed" /\ observed # "quota" )
  => /\ entry.outcome = "SourceVanished" => entry.copies = 0
     /\ entry.idx < Len(files) => pc = "file" /\ j = entry.idx + 1
     /\ entry.idx = Len(files) =>
          \/ pc = "capacity" /\ i <= Len(transfers)
          \/ pc = "returned" /\ i > Len(transfers) /\ report.logged

PerFileFailureContinuesWitness ==
  /\ entry.outcome = "TransferFailed"
  /\ entry.retry = "none"
  /\ observed = "none"
  /\ entry.idx = 1
  /\ pc = "file"
  /\ j = 2

\* C12: for every planned entry the executor issues at most two copies and
\* at most one deletion of the destination copy, and a retry copy only
\* after a deletion that followed a failed verification of a successful
\* first copy.
AtMostOneRetry ==
  /\ entry.copies <= 2
  /\ entry.deletes <= 1
  /\ (pc = "retry_copy" \/ entry.copies = 2) =>
       /\ entry.first = "mismatch"
       /\ entry.deletes = 1
       /\ entry.del = "ok"
  /\ entry.deletes = 1 => entry.first = "mismatch" /\ entry.copies >= 1

AtMostOneRetryWitness ==
  /\ entry.copies = 2
  /\ entry.deletes = 1
  /\ entry.retry = "failed"

\* C13 as stated: once a full listing of a tree in a role has been requested
\* on a day, no later call requests another one for that tree, role and day.
ListedOncePerDay == hist.relisted = {}

\* C13: a full listing that succeeded is persisted, and once a tree has been
\* listed with success in a role on a day no later call, in this run or a
\* later run of that day, requests another full listing of it in that role.
ListedOnceAfterSuccess ==
  /\ hist.relisted_ok = {}
  /\ \A key \in hist.succeeded : key \in DOMAIN cache

ListedOnceAfterSuccessWitness ==
  /\ hist.succeeded \cap hist.served # {}
  /\ hist.relisted = {}

\* the trees the configured pairs name
Trees ==
  { transfers[k].SOURCE : k \in 1..Len(transfers) }
    \cup { transfers[k].DESTINATION : k \in 1..Len(transfers) }

\* C14: on a cache miss get_cached_files returns an empty snapshot and
\* persists nothing for a source tree that does not exist, persists and
\* returns an empty snapshot for a destination tree that does not exist,
\* returns an empty snapshot and persists nothing when the listing fails;
\* and no call changes a cache file that already exists.
CacheMissContract ==
  pc \in {"plan_source", "plan_dest", "empty_plan"} =>
    \A remote_path \in Trees, is_source \in BOOLEAN, exists \in BOOLEAN,
       ls \in Listings(DstHashes) :
      LET key == SnapshotFile(remote_path, is_source, today)
          r == get_cached_files(cache, today, remote_path, is_source,
                                exists, ls)
      IN /\ \A k \in DOMAIN cache : k \in DOMAIN r.cache /\ r.cache[k] = cache[k]
         /\ key \notin DOMAIN cache =>
              /\ ~exists /\ is_source => r.files = <<>> /\ r.cache = cache
              /\ ~exists /\ ~is_source =>
                   /\ r.files = <<>>
                   /\ DOMAIN r.cache = DOMAIN cache \cup {key}
                   /\ r.cache[key] = <<>>
              /\ exists /\ ls.kind = "error" =>
                   r.files = <<>> /\ r.cache = cache

CacheMissContractWitness ==
  /\ pc = "empty_plan"
  /\ LET skey == SnapshotFile(transfers[i].SOURCE, TRUE, today)
         dkey == SnapshotFile(transfers[i].DESTINATION, FALSE, today)
     IN /\ skey \notin DOMAIN cache
        /\ skey \in hist.requested
        /\ dkey \in DOMAIN cache
        /\ cache[dkey] = <<>>
        /\ dkey \notin hist.requested

\* the pair whose plan is being asked for
Pair == <<transfers[i].SOURCE, transfers[i].DESTINATION>>

\* the step is a pure cache hit of get_files_to_copy: no existence probe,
\* no listing, no delete, and every cache file as it was
PureCacheHit ==
  /\ plan_view'.how = "cached"
  /\ calls' = calls
  /\ cache' = cache
  /\ hist' = hist

\* C15 as stated: any second get_files_to_copy call for a pair on the same
\* day returns the plan of the first call and is a pure cache hit.
AnySecondPlanIsCacheHit ==
  [][ (pc = "plan_source" /\ Pair \in DOMAIN hist.planned) =>
        files' = hist.planned[Pair].plan /\ PureCacheHit ]_vars

\* C15: a second get_files_to_copy call for a pair on the same day returns
\* the plan of the first call and is a pure cache hit, provided the first
\* call wrote its plan, that is, did not find the source tree missing.
SecondPlanIsCacheHit ==
  [][ ( /\ pc = "plan_source"
        /\ Pair \in DOMAIN hist.planned
        /\ hist.planned[Pair].written ) =>
        files' = hist.planned[Pair].plan /\ PureCacheHit ]_vars

SecondPlanIsCacheHitWitness ==
  /\ plan_view.how = "cached"
  /\ Pair \in DOMAIN hist.planned
  /\ hist.planned[Pair].written
  /\ files # <<>>

\* the positions of sync_files between the checks of an entry and its outcome
InEntry == {"exists", "copy", "verify", "delete", "retry_copy", "retry_verify"}

\* C16: whenever a copy of a planned entry is started the cumulative copied
\* bytes are below the maximum transfer volume, so the counter stays below
\* the maximum plus the size of the last verified file, and once it has
\* reached the maximum no further entry is worked on.
VolumeCapBeforeCopy ==
  /\ pc \in InEntry => total_size_copied < MAX_TRANSFER_GB
  /\ total_size_copied < MAX_TRANSFER_GB + verified.last
  /\ verified.files = 0 => total_size_copied = 0

VolumeCapBeforeCopyWitness ==
  /\ total_size_copied >= MAX_TRANSFER_GB
  /\ observed = "volume"
  /\ pc = "returned"

\* C17: once the recursive listing of an existing source tree has failed in
\* get_files_to_copy, the call leaves no source snapshot but writes an empty
\* plan under the source's plan file of the day, and every later call for
\* that source that day returns the empty plan without any listing, even
\* after the source has been listed with success.
FailedListingLeavesEmptyPlan ==
  \A source \in hist.failed :
    LET during == pc = "plan_dest" /\ transfers[i].SOURCE = source
    IN /\ during =>
            SnapshotFile(source, TRUE, today) \notin DOMAIN cache
       /\ ~during =>
            /\ PlanFile(source, today) \in DOMAIN cache
            /\ cache[PlanFile(source, today)] = <<>>
       /\ (plan_view.how = "cached" /\ transfers[i].SOURCE = source) =>
            /\ files = <<>>
            /\ "listing" \notin calls
            /\ pc = "empty_plan"

FailedListingLeavesEmptyPlanWitness ==
  /\ plan_view.how = "cached"
  /\ transfers[i].SOURCE \in hist.failed
  /\ files = <<>>
  /\ LET skey == SnapshotFile(transfers[i].SOURCE, TRUE, today)
         dkey == SnapshotFile(transfers[i].DESTINATION, FALSE, today)
     IN /\ skey \in DOMAIN cache
        /\ cache[skey] # <<>>
        /\ dkey \in DOMAIN cache
        /\ cache[dkey] = <<>>

\* C19: right after every verified copy the cumulative copied bytes of the
\* run, earlier pairs included, are at most the free bytes read for the
\* current pair.
CopiedWithinFreeSpace ==
  (EntryDone /\ entry.outcome = "Verified") =>
    /\ total_size_copied <= free_space
    /\ total_size_copied = entry.bytes0 + files[entry.idx].Size

CopiedWithinFreeSpaceWitness ==
  /\ EntryDone
  /\ entry.outcome = "Verified"
  /\ entry.bytes0 > 0
  /\ entry.idx = 1

\* every delete of the comparison names a path of the plan the same call
\* wrote, and no path twice
DeletesAreInPlan ==
  plan_view.how = "computed" =>
    /\ cache[PlanFile(transfers[i].SOURCE, today)] = files
    /\ \A k \in 1..Len(plan_view.deleted) :
         /\ \E m \in 1..Len(files) : files[m].Path = plan_view.deleted[k]
         /\ \A m \in 1..Len(plan_view.deleted) :
              plan_view.deleted[m] = plan_view.deleted[k] => m = k

\* an entry the loop stopped at or skipped leaves its deleted destination
\* file absent
StoppedEntryStaysAbsent ==
  ( /\ EntryDone
    /\ entry.outcome \in {"DeadlineStop", "VolumeStop", "SpaceSkip",
                          "SourceVanished", "QuotaExceeded"} ) =>
    \A x \in hist.stale : x[2] = files[entry.idx].Path => x \notin hist.present

\* C18 as stated: the deletes of the comparison name paths of the plan
\* written by the same call, and a destination file deleted by it is back
\* only if its entry was reached and its copy verified.
StaleBackOnlyIfVerified ==
  /\ DeletesAreInPlan
  /\ StoppedEntryStaysAbsent
  /\ pc \notin InEntry => hist.present \subseteq hist.restored

\* C18: the deletes of the comparison name paths of the plan written by the
\* same call, and a destination file deleted by it is back only if the loop
\* reached the copy of its entry and a copy succeeded, verified or not; if
\* the run stopped or skipped the entry first the file stays absent.
StaleBackOnlyIfCopied ==
  /\ DeletesAreInPlan
  /\ StoppedEntryStaysAbsent
  /\ hist.present \subseteq hist.reached
  /\ hist.restored \subseteq hist.present
  /\ hist.reached \subseteq hist.stale

StaleBackOnlyIfCopiedWitness ==
  /\ pc = "returned"
  /\ observed = "deadline"
  /\ Len(files) = 2
  /\ hist.reached # {}
  /\ hist.stale \ hist.reached # {}
  /\ hist.present = {}

\* the place of a position within the work on one pair
Rank ==
  CASE pc = "parse" -> 0
    [] pc = "capacity" -> 1
    [] pc = "check_source" -> 2
    [] pc = "plan_source" -> 3
    [] pc = "plan_dest" -> 4
    [] pc = "empty_plan" -> 5
    [] pc = "file" -> 6
    [] pc = "exists" -> 7
    [] pc = "copy" -> 8
    [] pc = "verify" -> 9
    [] pc = "delete" -> 10
    [] pc = "retry_copy" -> 11
    [] pc = "retry_verify" -> 12
    [] OTHER -> 13

\* how far the run has got: the pair, then the planned entry, then the place
Progress ==
  IF pc \in {"returned", "crashed"}
  THEN <<MaxTransfers + 1, 0, 13>>
  ELSE <<i, IF pc \in InEntry \cup {"file"} THEN j ELSE 0, Rank>>

Before(a, b) ==
  \/ a[1] < b[1]
  \/ a[1] = b[1] /\ a[2] < b[2]
  \/ a[1] = b[1] /\ a[2] = b[2] /\ a[3] < b[3]

\* every step moves forward, to the next pair or the next entry at most,
\* with at most one probe, two copies, one deletion and four hash reads
\* per entry
Forward ==
  /\ Before(Progress, Progress')
  /\ i' \in {i, i + 1}
  /\ i <= Len(transfers) + 1
  /\ Progress'[2] \in {0, 1, Progress[2], Progress[2] + 1}
  /\ pc \in InEntry \cup {"file"} => j <= Len(files)
  /\ entry.probes <= 1 /\ entry.copies <= 2
  /\ entry.deletes <= 1 /\ entry.hashes <= 4

\* C20: with every external call returning, a run ends; until then every
\* step goes forward through the pairs in configured order and through the
\* planned entries in plan order, never back to an earlier entry or pair,
\* and with a bounded number of external calls per entry.
RunTerminates ==
  /\ <>(pc \in {"returned", "crashed"})
  /\ [][Forward]_vars

RunTerminatesWitness ==
  /\ pc = "returned"
  /\ report.logged
  /\ Len(transfers) = MaxTransfers
  /\ total_copied = 2

====
